---- MODULE Spec2Model ----
(***************************************************************************)
(* Workspace path guard of the Outlook tool server                         *)
(* (src/src/workspace_utils.py): get_workspace, resolve_workspace_file,    *)
(* to_filename, is_workspace_configured, on a POSIX host (os.sep = "/").   *)
(*                                                                         *)
(* A Python str is a sequence of one-character strings; a filesystem path  *)
(* is the sequence of its component names below "/".  The process          *)
(* environment (WORKSPACE_PATH) and the filesystem are state that other    *)
(* processes change between calls of the guard.                            *)
(*                                                                         *)
(* The tools that take a local file (src/src/tools: attachment_tools.py,   *)
(* mail_tools.py, calendar_tools.py) run as steps on the same environment  *)
(* and filesystem; the answers of the HTTP client are the environment's.   *)
(***************************************************************************)
EXTENDS Integers, Sequences, FiniteSets, TLC

VARIABLES env, fs, call, out, tool, frames

vars == <<env, fs, call, out, tool, frames>>

\* Longest filename handed to resolve_workspace_file, in "/"-separated pieces.
MaxComps == 3
\* Longest path handed to to_filename, in "/"-separated pieces.
MaxPathComps == 3
\* Deepest drive-qualified path handed to the containment test.
MaxDriveComps == 2

-----------------------------------------------------------------------------
(* Python str operations used by the guard *)

Sep == "/"
Dot == <<".">>
DotDot == <<".", ".">>
Tilde == "~"
Space == " "

StartsWith(s, p) == Len(s) >= Len(p) /\ SubSeq(s, 1, Len(p)) = p

Contains(s, p) ==
    \E i \in 1..(Len(s) - Len(p) + 1) : SubSeq(s, i, i + Len(p) - 1) = p

\* The blank test without the strip: only the empty string is blank.
IsBlank_NoStrip(s) == s = <<>>

\* str.strip() == "": only whitespace.
IsBlank(s) == \A i \in 1..Len(s) : s[i] = Space

Front(s) == SubSeq(s, 1, Len(s) - 1)

\* str.split(sep): "a//b" -> ["a", "", "b"], "" -> [""].
RECURSIVE SplitFrom(_, _, _)
SplitFrom(s, i, cur) ==
    IF i > Len(s) THEN <<cur>>
    ELSE IF s[i] = Sep THEN <<cur>> \o SplitFrom(s, i + 1, <<>>)
    ELSE SplitFrom(s, i + 1, Append(cur, s[i]))

Split(s) == SplitFrom(s, 1, <<>>)

\* sep.join(comps)
RECURSIVE Join(_)
Join(comps) ==
    IF comps = <<>> THEN <<>>
    ELSE IF Len(comps) = 1 THEN comps[1]
    ELSE comps[1] \o <<Sep>> \o Join(Tail(comps))

\* The non-empty pieces of a split.
RECURSIVE NonEmpty(_)
NonEmpty(comps) ==
    IF comps = <<>> THEN <<>>
    ELSE IF Head(comps) = <<>> THEN NonEmpty(Tail(comps))
    ELSE <<Head(comps)>> \o NonEmpty(Tail(comps))

-----------------------------------------------------------------------------
(* os.path on POSIX, as the guard calls it *)

isabs(s) == StartsWith(s, <<Sep>>)

\* The string of an absolute path given by its components.
PathStr(comps) == IF comps = <<>> THEN <<Sep>> ELSE <<Sep>> \o Join(comps)

\* os.path.join(a, b) for two parts.
join(a, b) ==
    IF isabs(b) THEN b
    ELSE IF a = <<>> \/ a[Len(a)] = Sep THEN a \o b
    ELSE a \o <<Sep>> \o b

\* os.path.basename: what follows the last separator.
RECURSIVE LastSep(_, _)
LastSep(s, i) == IF i = 0 THEN 0 ELSE IF s[i] = Sep THEN i ELSE LastSep(s, i - 1)

basename(s) == SubSeq(s, LastSep(s, Len(s)) + 1, Len(s))

\* The component loop of os.path.normpath.
RECURSIVE NormComps(_, _, _)
NormComps(comps, new, rooted) ==
    IF comps = <<>> THEN new
    ELSE LET c == Head(comps) IN
         IF c = <<>> \/ c = Dot THEN NormComps(Tail(comps), new, rooted)
         ELSE IF c # DotDot \/ (~rooted /\ new = <<>>)
                    \/ (new # <<>> /\ new[Len(new)] = DotDot)
              THEN NormComps(Tail(comps), Append(new, c), rooted)
         ELSE IF new # <<>> THEN NormComps(Tail(comps), Front(new), rooted)
         ELSE NormComps(Tail(comps), new, rooted)

\* os.path.normpath: collapses ".", "x/.." and repeated separators, lexically.
normpath(s) ==
    IF s = <<>> THEN Dot
    ELSE LET slashes == IF ~isabs(s) THEN 0
                        ELSE IF StartsWith(s, <<Sep, Sep>>) /\ ~StartsWith(s, <<Sep, Sep, Sep>>)
                             THEN 2 ELSE 1
             body == Join(NormComps(Split(s), <<>>, slashes > 0))
             path == [i \in 1..slashes |-> Sep] \o body
         IN  IF path = <<>> THEN Dot ELSE path

-----------------------------------------------------------------------------
(* The host: filesystem and process environment *)

nO == <<"o">>
nAO == <<"a", "o">>
nS == <<"s">>
nA == <<"a">>
nL == <<"l">>
nN == <<"n">>
nDA == <<".", ".", "a">>

\* The paths that may hold an entry; "/" itself is always a directory.
FsPaths ==
    { <<nA>>, <<nA, nA>>, <<nA, nL>>, <<nA, nDA>>, <<nA, nDA, nA>>,
      <<nO>>, <<nO, nA>>, <<nO, nL>>, <<nAO>>, <<nS>>,
      <<nN>>, <<nA, nA, nA>>, <<nA, nA, nL>> }

NoNode == [kind |-> "none", target |-> <<>>]
FileNode == [kind |-> "file", target |-> <<>>]
DirNode == [kind |-> "dir", target |-> <<>>]
LinkNode(t) == [kind |-> "link", target |-> t]

\* Where the symlink /a/l may point: outside the directory /a (a directory,
\* a missing path, a sibling whose name extends the name of /a) or inside it
\* (absolute, or relative to the link's directory).  No target names a
\* symlink, so no chain of links is a cycle.
LinkTargets ==
    { PathStr(<<nO>>), PathStr(<<nN>>), PathStr(<<nAO>>),
      PathStr(<<nA, nA>>), Join(<<nDA, nA>>) }

\* The entries other processes create and remove while the server runs.
FilePaths == { <<nA, nA>> }
LinkPaths == { <<nA, nL>> }

\* /a and /o are directories, /s is a symlink to /a, /o/l a symlink to /a,
\* /a/..a a directory holding the file a, /o/a a file, /ao a directory.
BaseFs ==
    [p \in FsPaths |->
        IF p \in { <<nA>>, <<nO>>, <<nAO>>, <<nA, nDA>> } THEN DirNode
        ELSE IF p \in { <<nO, nA>>, <<nA, nDA, nA>> } THEN FileNode
        ELSE IF p \in { <<nS>>, <<nO, nL>> } THEN LinkNode(PathStr(<<nA>>))
        ELSE NoNode]

\* q is an entry of the directory p.
IsChildOf(q, p) == Len(q) = Len(p) + 1 /\ SubSeq(q, 1, Len(p)) = p

\* os.lstat: the entry at a path whose parent directories are real.
lstat(p) ==
    IF p = <<>> THEN DirNode ELSE IF p \in FsPaths THEN fs[p] ELSE NoNode

\* HOME and the working directory of the server process.
Home == PathStr(<<nA>>)
Cwd == <<Sep>>

\* A value of os.environ.get("WORKSPACE_PATH"): None or a string.
Unset == [set |-> FALSE, value |-> <<>>]
EnvStr(s) == [set |-> TRUE, value |-> s]

EnvValues ==
    { Unset, EnvStr(<<>>), EnvStr(PathStr(<<nA>>)), EnvStr(PathStr(<<nO>>)),
      EnvStr(PathStr(<<nS>>)), EnvStr(<<Tilde>> \o PathStr(<<nA>>)),
      EnvStr(PathStr(<<nN>>)) }

-----------------------------------------------------------------------------
(* os.path functions that read the filesystem or the environment *)

\* posixpath._joinrealpath, strict=False: path is resolved, rest is pending.
RECURSIVE joinrealpath(_, _)
joinrealpath(path, rest) ==
    IF rest = <<>> THEN path
    ELSE LET name == Head(rest)
             newpath == Append(path, name)
             node == lstat(newpath)
         IN  IF name = <<>> \/ name = Dot THEN joinrealpath(path, Tail(rest))
             ELSE IF name = DotDot
                  THEN joinrealpath(IF path = <<>> THEN path ELSE Front(path), Tail(rest))
             ELSE IF node.kind # "link" THEN joinrealpath(newpath, Tail(rest))
             ELSE joinrealpath(
                      joinrealpath(IF isabs(node.target) THEN <<>> ELSE path,
                                   Split(node.target)),
                      Tail(rest))

\* os.path.abspath used where realpath is meant: symlinks are not followed.
realpath_NoFollow(s) == normpath(join(<<Sep>>, s))

\* os.path.realpath: the canonical absolute path, symlinks followed.
realpath(s) ==
    PathStr(joinrealpath(IF isabs(s) THEN <<>> ELSE NonEmpty(Split(Cwd)), Split(s)))

\* os.stat, which follows symlinks.
stat(s) == lstat(joinrealpath(<<>>, Split(join(Cwd, s))))

\* os.path.exists
exists(s) == stat(s).kind # "none"

\* os.path.exists used where isdir is meant.
isdir_ExistsOnly(s) == exists(s)

\* os.path.isdir
isdir(s) == stat(s).kind = "dir"

\* os.path.expanduser: "~" and "~/x" use HOME; "~name" of no known user stays.
expanduser(s) ==
    IF ~StartsWith(s, <<Tilde>>) THEN s
    ELSE IF Len(s) = 1 THEN Home
    ELSE IF s[2] = Sep THEN Home \o SubSeq(s, 2, Len(s))
    ELSE s

abspath(s) == normpath(join(Cwd, s))

\* The components os.path.commonpath and os.path.relpath compare.
RECURSIVE PathComps(_)
PathComps(comps) ==
    IF comps = <<>> THEN <<>>
    ELSE IF Head(comps) = <<>> \/ Head(comps) = Dot THEN PathComps(Tail(comps))
    ELSE <<Head(comps)>> \o PathComps(Tail(comps))

RECURSIVE CommonPrefix(_, _)
CommonPrefix(a, b) ==
    IF a = <<>> \/ b = <<>> \/ Head(a) # Head(b) THEN <<>>
    ELSE <<Head(a)>> \o CommonPrefix(Tail(a), Tail(b))

-----------------------------------------------------------------------------
(* Outcomes of a call: a returned value or a raised exception *)

NoOut == [kind |-> "none", value |-> <<>>, flag |-> FALSE,
          exc |-> "", text |-> "", args |-> <<>>]

\* return <str>
Ret(v) == [NoOut EXCEPT !.kind = "return", !.value = v]

\* return <bool>
RetFlag(b) == [NoOut EXCEPT !.kind = "return", !.flag = b]

\* raise exc(text), where args are the strings the f-string interpolates.
Raise(e, t, a) == [NoOut EXCEPT !.kind = "raise", !.exc = e, !.text = t, !.args = a]

MsgNotSet == "Server configuration error: WORKSPACE_PATH environment variable is not set."
MsgNotDir == "Server configuration error: WORKSPACE_PATH '{workspace}' does not exist or is not a directory."
MsgEmpty == "Filename cannot be empty."
MsgAbsolute == "Access denied: Absolute paths are not allowed."
MsgTraversal == "Access denied: Path traversal is not allowed."
MsgDrive == "Access denied: File is on a different drive than workspace."
MsgOutside == "Access denied: File resolves outside the workspace."
MsgNotFound == "File not found in workspace: {filename}"

RECURSIVE CharPrefix(_, _)
\* The longest common prefix of two strings, character by character.
CharPrefix(a, b) ==
    IF a = <<>> \/ b = <<>> \/ Head(a) # Head(b) THEN <<>>
    ELSE <<Head(a)>> \o CharPrefix(Tail(a), Tail(b))

\* os.path.commonprefix in the place of os.path.commonpath.
commonpath_CharPrefix(a, b) == Ret(CharPrefix(a, b))

Colon == ":"

\* os.path.splitdrive(p): <<drive, rest>>. A path that begins with a letter
\* and a colon is a path of a platform with drives (ntpath); the paths of
\* the POSIX host never do and their drive is empty (posixpath).
splitdrive(p) ==
    IF Len(p) >= 2 /\ p[2] = Colon
    THEN <<SubSeq(p, 1, 2), SubSeq(p, 3, Len(p))>>
    ELSE <<<<>>, p>>

\* os.path.commonpath([a, b]): ValueError when absolute and relative mix or
\* when the drives differ.
commonpath(a, b) ==
    LET da == splitdrive(a)
        db == splitdrive(b)
    IN  IF isabs(da[2]) # isabs(db[2])
        THEN Raise("ValueError", "Can't mix absolute and relative paths", <<>>)
        ELSE IF da[1] # db[1]
        THEN Raise("ValueError", "Paths don't have the same drive", <<>>)
        ELSE LET common == Join(CommonPrefix(PathComps(Split(da[2])),
                                             PathComps(Split(db[2]))))
             IN  Ret(da[1] \o (IF isabs(da[2]) THEN <<Sep>> \o common ELSE common))

\* os.path.relpath(path, start), for a non-empty path.
relpath(path, start) ==
    LET start_list == NonEmpty(Split(abspath(start)))
        path_list == NonEmpty(Split(abspath(path)))
        i == Len(CommonPrefix(start_list, path_list))
        rel_list == [k \in 1..(Len(start_list) - i) |-> DotDot]
                        \o SubSeq(path_list, i + 1, Len(path_list))
    IN  IF rel_list = <<>> THEN Dot ELSE Join(rel_list)

-----------------------------------------------------------------------------
(* The guard: src/src/workspace_utils.py *)

\* WORKSPACE_PATH as read once, before the host last changed it.
Environ_Cached == IF call.op = "reconfigured" THEN call.replaced ELSE env

\* os.environ.get("WORKSPACE_PATH"), read at the time of the call.
Environ == env

\* get_workspace without the directory test.
get_workspace_FailOpen ==
    IF ~Environ.set \/ Environ.value = <<>>
    THEN Raise("PermissionError", MsgNotSet, <<>>)
    ELSE Ret(realpath(expanduser(Environ.value)))

get_workspace ==
    LET workspace == Environ.value
        resolved == realpath(expanduser(workspace))
    IN  IF ~Environ.set \/ workspace = <<>>
        THEN Raise("PermissionError", MsgNotSet, <<>>)
        ELSE IF ~isdir(resolved)
        THEN Raise("PermissionError", MsgNotDir, <<workspace>>)
        ELSE Ret(resolved)

\* The traversal test with the leading-".." half left out.
IsTraversal_InnerOnly(normalized) == Contains(normalized, <<Sep>> \o DotDot)

\* The traversal test on the normalized name.
IsTraversal(normalized) ==
    StartsWith(normalized, DotDot) \/ Contains(normalized, <<Sep>> \o DotDot)

\* The containment test done on strings: abs_path.startswith(ws_real).
ContainmentCheck_StringPrefix(abs_path, ws_real) ==
    IF ~StartsWith(abs_path, ws_real) THEN Raise("PermissionError", MsgOutside, <<>>)
    ELSE Ret(abs_path)

\* The containment test without the except clause of lines 87-90.
ContainmentCheck_Uncaught(abs_path, ws_real) ==
    LET common == commonpath(abs_path, ws_real)
    IN  IF common.kind = "raise" THEN common
        ELSE IF common.value # ws_real THEN Raise("PermissionError", MsgOutside, <<>>)
        ELSE Ret(abs_path)

\* The containment test on the resolved path.
ContainmentCheck(abs_path, ws_real) ==
    LET common == commonpath(abs_path, ws_real)
    IN  IF common.kind = "raise" THEN Raise("PermissionError", MsgDrive, <<>>)
        ELSE IF common.value # ws_real THEN Raise("PermissionError", MsgOutside, <<>>)
        ELSE Ret(abs_path)

\* The existence test reporting the resolved path instead of the filename.
ExistenceCheck_LeaksPath(filename, must_exist, abs_path) ==
    IF must_exist /\ ~exists(abs_path)
    THEN Raise("FileNotFoundError", MsgNotFound, <<abs_path>>)
    ELSE Ret(abs_path)

\* The existence test asking for a regular file.
ExistenceCheck_RequiresFile(filename, must_exist, abs_path) ==
    IF must_exist /\ stat(abs_path).kind # "file"
    THEN Raise("FileNotFoundError", MsgNotFound, <<filename>>)
    ELSE Ret(abs_path)

\* The existence test that must_exist asks for.
ExistenceCheck(filename, must_exist, abs_path) ==
    IF must_exist /\ ~exists(abs_path)
    THEN Raise("FileNotFoundError", MsgNotFound, <<filename>>)
    ELSE Ret(abs_path)

\* The absolute-path test left out.
IsAbsoluteName_Omitted(filename) == FALSE

\* The absolute-path test on the caller's filename.
IsAbsoluteName(filename) == isabs(filename)

\* resolve_workspace_file with the traversal test made last, on the
\* resolved path's containment having passed.
resolve_workspace_file_TraversalLast(filename, must_exist) ==
    IF filename = <<>> \/ IsBlank(filename)
    THEN Raise("ValueError", MsgEmpty, <<>>)
    ELSE LET ws == get_workspace
             ws_real == ws.value
             normalized == normpath(filename)
             abs_path == realpath(join(ws_real, normalized))
             contained == ContainmentCheck(abs_path, ws_real)
             found == ExistenceCheck(filename, must_exist, abs_path)
         IN  IF ws.kind = "raise" THEN ws
             ELSE IF IsAbsoluteName(filename)
             THEN Raise("PermissionError", MsgAbsolute, <<>>)
             ELSE IF contained.kind = "raise" THEN contained
             ELSE IF found.kind = "raise" THEN found
             ELSE IF IsTraversal(normalized)
             THEN Raise("PermissionError", MsgTraversal, <<>>)
             ELSE found

\* resolve_workspace_file with the existence test moved before the
\* containment test.
resolve_workspace_file_ExistsFirst(filename, must_exist) ==
    IF filename = <<>> \/ IsBlank(filename)
    THEN Raise("ValueError", MsgEmpty, <<>>)
    ELSE LET ws == get_workspace
             ws_real == ws.value
             normalized == normpath(filename)
             abs_path == realpath(join(ws_real, normalized))
             found == ExistenceCheck(filename, must_exist, abs_path)
         IN  IF ws.kind = "raise" THEN ws
             ELSE IF IsAbsoluteName(filename)
             THEN Raise("PermissionError", MsgAbsolute, <<>>)
             ELSE IF IsTraversal(normalized)
             THEN Raise("PermissionError", MsgTraversal, <<>>)
             ELSE IF found.kind = "raise" THEN found
             ELSE ContainmentCheck(abs_path, ws_real)

resolve_workspace_file(filename, must_exist) ==
    IF filename = <<>> \/ IsBlank(filename)
    THEN Raise("ValueError", MsgEmpty, <<>>)
    ELSE LET ws == get_workspace
             ws_real == ws.value
             normalized == normpath(filename)
             abs_path == realpath(join(ws_real, normalized))
             contained == ContainmentCheck(abs_path, ws_real)
         IN  IF ws.kind = "raise" THEN ws
             ELSE IF IsAbsoluteName(filename)
             THEN Raise("PermissionError", MsgAbsolute, <<>>)
             ELSE IF IsTraversal(normalized)
             THEN Raise("PermissionError", MsgTraversal, <<>>)
             ELSE IF contained.kind = "raise" THEN contained
             ELSE ExistenceCheck(filename, must_exist, abs_path)

\* The outside test left out: the relative name is returned as computed.
WentOutside_Never(rel) == FALSE

\* Whether the relative name computed by to_filename left the workspace.
WentOutside(rel) == StartsWith(rel, DotDot)

to_filename(abs_path) ==
    IF abs_path = <<>> THEN Ret(abs_path)
    ELSE LET ws == get_workspace
             rel == relpath(abs_path, ws.value)
         IN  IF ws.kind = "raise" THEN Ret(basename(abs_path))
             ELSE IF WentOutside(rel) THEN Ret(basename(abs_path))
             ELSE Ret(rel)

is_workspace_configured ==
    LET ws == get_workspace
    IN  IF ws.kind = "return" THEN RetFlag(TRUE)
        ELSE IF ws.exc = "PermissionError" THEN RetFlag(FALSE)
        ELSE ws

-----------------------------------------------------------------------------
(* Inputs *)

\* The pieces a caller's filename is made of, joined by "/": an empty piece
\* gives a leading, doubled or trailing separator.
Pieces == { <<>>, Dot, DotDot, nA, nL, nDA }

\* Names made of whitespace or padded with it.
PaddedNames ==
    { <<Space>>, <<Space, Space>>, <<Space>> \o PathStr(<<nA>>), nA \o <<Space>> }

Filenames ==
    { Join(c) : c \in UNION { [1..n -> Pieces] : n \in 1..MaxComps } }
        \cup PaddedNames

\* The pieces of a path handed to to_filename.
PathPieces == { <<>>, nA, nO, nDA, DotDot }

PathInputs ==
    { Join(c) : c \in UNION { [1..n -> PathPieces] : n \in 1..MaxPathComps } }

-----------------------------------------------------------------------------
(* The attachment tools: src/src/tools *)

\* The envelope a tool returns, {"successful", "data", "error"}: of data the
\* one entry that names a local file, the error as a prefix, a text and the
\* values interpolated into it.  raised: an exception left the tool instead.
NoEnvelope == [returned |-> FALSE, raised |-> FALSE, successful |-> FALSE,
               file_name |-> <<>>, prefix |-> "", text |-> "", args |-> <<>>]

Failure(prefix, text, args) ==
    [NoEnvelope EXCEPT !.returned = TRUE, !.prefix = prefix, !.text = text,
                       !.args = args]

Success(file_name) ==
    [NoEnvelope EXCEPT !.returned = TRUE, !.successful = TRUE,
                       !.file_name = file_name]

MsgNotAuth == "Not authenticated. Please authenticate first."
MsgNoContent == "Attachment does not contain downloadable content (contentBytes). It may be a link or embedded item."
MsgNoItem == "Either provide 'file_path' (relative to WORKSPACE_PATH) or 'attachmentItem' dict ..."
MsgItemFields == "attachmentItem is missing required fields: {missing}"
MsgNoBytes == "Either contentBytes (base64-encoded) or file_path must be provided."
MsgNotDraft == "Cannot add attachment to received/sent message. ..."
MsgTooBig == "File size ({size} MB) exceeds 3 MB limit. ..."
MsgFileNotFound == "File not found: {file_path}"
\* str() of what the HTTP client and base64.b64decode raise.
MsgClient == "{client error}"
MsgBase64 == "{binascii.Error}"
\* str() of the OSError of a failed open() or stat(): the path is part of it.
MsgIsDir == "[Errno 21] Is a directory: '{path}'"
MsgNoEnt == "[Errno 2] No such file or directory: '{path}'"
MsgNotADir == "[Errno 20] Not a directory: '{path}'"

PrefixFileError == "File error: "
PrefixReading == "Error reading file: "

\* The guard's exception turned into a failure envelope that raises instead.
GuardEnvelope_Raises(prefix, g) == [NoEnvelope EXCEPT !.raised = TRUE]

\* The guard's exception turned into a failure envelope: str(e), prefixed.
GuardEnvelope(prefix, g) == Failure(prefix, g.text, g.args)

\* The outcome of an open() or stat(): an errno text, or the entry reached.
OsOk(target) == [text |-> "", target |-> target]
OsError(text) == [text |-> text, target |-> <<>>]

RECURSIVE namei(_, _)
\* The kernel's walk from the directory path along the components rest:
\* symlinks are followed, ".." steps up, and every component but the last
\* must be a directory.  The entry reached may be missing.
namei(path, rest) ==
    IF rest = <<>> THEN OsOk(path)
    ELSE LET name == Head(rest)
             more == Tail(rest)
             node == lstat(Append(path, name))
         IN  IF name = <<>> \/ name = Dot THEN namei(path, more)
             ELSE IF name = DotDot
             THEN namei(IF path = <<>> THEN <<>> ELSE Front(path), more)
             ELSE IF node.kind = "link"
             THEN namei(IF isabs(node.target) THEN <<>> ELSE path,
                        Split(node.target) \o more)
             ELSE IF node.kind = "dir" \/ more = <<>>
             THEN namei(Append(path, name), more)
             ELSE IF node.kind = "none" THEN OsError(MsgNoEnt)
             ELSE OsError(MsgNotADir)

\* The entry the kernel reaches for a path string; "" names nothing.
Walk(s) == IF s = <<>> THEN OsError(MsgNoEnt) ELSE namei(<<>>, Split(join(Cwd, s)))

\* open(path, "wb"): truncates a file, creates a missing one in an existing
\* directory (also at the target of a dangling symlink), fails on a
\* directory and below a missing or non-directory parent.
OpenForWrite(s) ==
    IF Walk(s).text # "" THEN Walk(s)
    ELSE IF lstat(Walk(s).target).kind = "dir" THEN OsError(MsgIsDir)
    ELSE Walk(s)

\* Path.stat(), os.stat(): fails on a missing entry.
StatPath(s) ==
    IF Walk(s).text # "" THEN Walk(s)
    ELSE IF lstat(Walk(s).target).kind = "none" THEN OsError(MsgNoEnt)
    ELSE Walk(s)

\* open(path, "rb"): a regular file can be read.
OpenForRead(s) ==
    IF StatPath(s).text # "" THEN StatPath(s)
    ELSE IF lstat(Walk(s).target).kind = "dir" THEN OsError(MsgIsDir)
    ELSE Walk(s)

\* Path.exists(), os.path.exists() on the caller's path.
PathExists(s) == StatPath(s).text = ""

\* The file names and paths callers hand to the tools.
ToolFiles ==
    { <<>>, <<Space>>, nA, nL, Dot, Join(<<nA, nA>>), PathStr(<<nO, nA>>),
      Join(<<DotDot, nO, nA>>) }

\* What the caller passes as attachmentItem.
Items == { "none", "incomplete", "complete" }

\* The payload of a POST: where it was taken from and the name in it.
\* What a tool posts: where the attachment came from, its name, and the path
\* whose st_size is its size.
NoPayload == [source |-> "none", name |-> <<>>, size_of |-> <<>>]

\* One run of a tool: its arguments, what the client answered
\* (is_authenticated, the GET), whether the workspace was configured when it
\* started and its root then, the must_exist handed to the guard and the
\* guard's outcome, the calls made in order, the paths handed to the
\* operating system, the entries written, the payload posted and the
\* envelope.
NoTool == [name |-> "none", pc |-> "none", file |-> <<>>, given |-> FALSE,
           item |-> "none", authed |-> FALSE, got |-> "none",
           configured |-> FALSE, root |-> <<>>,
           must_exist |-> FALSE, guard |-> NoOut,
           trace |-> <<>>, touched |-> <<>>, written |-> <<>>,
           payload |-> NoPayload, envelope |-> NoEnvelope]

-----------------------------------------------------------------------------
(* The state machine *)

\* The callers that run resolve_workspace_file in parallel.
Callers == { 1, 2 }

\* The local variables of one call of resolve_workspace_file.
NoLocals == [filename |-> <<>>, must_exist |-> FALSE, ws_real |-> <<>>,
             normalized |-> <<>>, abs_path |-> <<>>]

\* One caller: the statement it is at, the arguments it passed, whether it
\* ran while another call was in progress, the locals of its call and the
\* outcome it got.
NoFrame == [pc |-> "idle", args |-> [filename |-> <<>>, must_exist |-> FALSE],
            overlapped |-> FALSE, locals |-> NoLocals, out |-> NoOut]

NoFrames == [c \in Callers |-> NoFrame]

NoCall == [op |-> "none", filename |-> <<>>, must_exist |-> FALSE,
           abs_path |-> <<>>, chained |-> FALSE, repeated |-> FALSE,
           reconfigured |-> FALSE, replaced |-> Unset]

\* Nobody is waiting for an outcome: the host and other processes run.
Idle == call.op = "none" /\ tool.pc # "done"

\* No call is in progress; the host may just have changed WORKSPACE_PATH.
Ready == call.op \in { "none", "reconfigured" }

\* The record of a call that starts now: it remembers whether the host
\* changed WORKSPACE_PATH just before, and the value that was replaced.
Begin == [NoCall EXCEPT !.reconfigured = (call.op = "reconfigured"),
                        !.replaced = call.replaced]

Init ==
    /\ env \in EnvValues
    /\ fs = BaseFs
    /\ call = NoCall
    /\ out = NoOut
    /\ tool = NoTool
    /\ frames = NoFrames

\* get_workspace writing the root it resolved back to WORKSPACE_PATH.
GetWorkspace_ExportsRoot ==
    /\ call.op \in { "none", "reconfigured" }
    /\ call' = [NoCall EXCEPT !.op = "get_workspace",
                              !.reconfigured = (call.op = "reconfigured"),
                              !.replaced = call.replaced]
    /\ out' = get_workspace
    /\ env' = IF get_workspace.kind = "return" THEN EnvStr(get_workspace.value)
              ELSE env
    /\ UNCHANGED <<fs, tool, frames>>

\* A caller invokes get_workspace().
GetWorkspace ==
    /\ Ready
    /\ call' = [Begin EXCEPT !.op = "get_workspace"]
    /\ out' = get_workspace
    /\ UNCHANGED <<env, fs, tool, frames>>

\* resolve_workspace_file creating the directory it resolved to
\* (os.makedirs) when that is missing.
ResolveWorkspaceFile_CreatesTarget ==
    /\ call.op = "none"
    /\ \E f \in Filenames, m \in BOOLEAN :
          LET r == resolve_workspace_file(f, FALSE)
              made == r.kind = "return" /\ NonEmpty(Split(r.value)) \in FilePaths
                          /\ fs[NonEmpty(Split(r.value))].kind = "none"
          IN  /\ call' = [NoCall EXCEPT !.op = "resolve_workspace_file",
                                        !.filename = f, !.must_exist = m]
              /\ out' = resolve_workspace_file(f, m)
              /\ fs' = IF made THEN [fs EXCEPT ![NonEmpty(Split(r.value))] = DirNode]
                        ELSE fs
    /\ UNCHANGED <<env, tool, frames>>

\* A caller invokes resolve_workspace_file(filename, must_exist).
ResolveWorkspaceFile ==
    /\ Ready
    /\ \E f \in Filenames, m \in BOOLEAN :
          /\ call' = [Begin EXCEPT !.op = "resolve_workspace_file",
                                    !.filename = f, !.must_exist = m]
          /\ out' = resolve_workspace_file(f, m)
    /\ UNCHANGED <<env, fs, tool, frames>>

\* A caller invokes to_filename(abs_path) on a path of its own.
ToFilename ==
    /\ Ready
    /\ \E p \in PathInputs :
          /\ call' = [Begin EXCEPT !.op = "to_filename", !.abs_path = p]
          /\ out' = to_filename(p)
    /\ UNCHANGED <<env, fs, tool, frames>>

\* A caller hands the path resolve_workspace_file(filename, False) just
\* returned to to_filename, as download_outlook_attachment does.
ToFilenameOfResolved ==
    /\ call.op = "resolve_workspace_file"
    /\ ~call.must_exist
    /\ ~call.repeated
    /\ out.kind = "return"
    /\ call' = [call EXCEPT !.op = "to_filename", !.abs_path = out.value,
                            !.chained = TRUE]
    /\ out' = to_filename(out.value)
    /\ UNCHANGED <<env, fs, tool, frames>>

\* A caller invokes is_workspace_configured().
IsWorkspaceConfigured ==
    /\ Ready
    /\ call' = [Begin EXCEPT !.op = "is_workspace_configured"]
    /\ out' = is_workspace_configured
    /\ UNCHANGED <<env, fs, tool, frames>>

\* The caller has consumed the outcome.
Return ==
    /\ ~Idle
    /\ call' = NoCall
    /\ out' = NoOut
    /\ UNCHANGED <<env, fs, tool, frames>>

\* The host sets or clears WORKSPACE_PATH between calls.
SetEnv ==
    /\ Idle
    /\ \E v \in EnvValues \ {env} : env' = v
    /\ UNCHANGED <<fs, call, out, tool, frames>>

\* Another process creates a file.
CreateFile ==
    /\ Idle
    /\ \E p \in FilePaths :
          /\ fs[p].kind = "none"
          /\ fs' = [fs EXCEPT ![p] = FileNode]
    /\ UNCHANGED <<env, call, out, tool, frames>>

\* Another process creates a directory.
Mkdir ==
    /\ Idle
    /\ \E p \in FilePaths :
          /\ fs[p].kind = "none"
          /\ fs' = [fs EXCEPT ![p] = DirNode]
    /\ UNCHANGED <<env, call, out, tool, frames>>

\* Another process creates a symlink.
Symlink ==
    /\ Idle
    /\ \E p \in LinkPaths, t \in LinkTargets :
          /\ fs[p].kind = "none"
          /\ fs' = [fs EXCEPT ![p] = LinkNode(t)]
    /\ UNCHANGED <<env, call, out, tool, frames>>

\* Another process removes a file, an empty directory or a symlink.
Unlink ==
    /\ Idle
    /\ \E p \in FilePaths \cup LinkPaths :
          /\ fs[p].kind # "none"
          /\ \A q \in FsPaths : IsChildOf(q, p) => fs[q].kind = "none"
          /\ fs' = [fs EXCEPT ![p] = NoNode]
    /\ UNCHANGED <<env, call, out, tool, frames>>

Next ==
    \/ GetWorkspace
    \/ ResolveWorkspaceFile
    \/ ToFilename
    \/ ToFilenameOfResolved
    \/ IsWorkspaceConfigured
    \/ Return
    \/ SetEnv
    \/ CreateFile
    \/ Mkdir
    \/ Symlink
    \/ Unlink

Spec == Init /\ [][Next]_vars

\* The caller repeats its resolve_workspace_file call with the same arguments,
\* nothing else having run in between.
RepeatResolve ==
    /\ call.op = "resolve_workspace_file"
    /\ ~call.repeated
    /\ call' = [call EXCEPT !.repeated = TRUE]
    /\ out' = resolve_workspace_file(call.filename, call.must_exist)
    /\ UNCHANGED <<env, fs, tool, frames>>

NextRepeat == Next \/ RepeatResolve

SpecRepeat == Init /\ [][NextRepeat]_vars

\* The host changes WORKSPACE_PATH and the next thing to happen is a call;
\* the value it replaced is remembered for that call.
Reconfigure ==
    /\ Idle
    /\ \E v \in EnvValues \ {env} : env' = v
    /\ call' = [NoCall EXCEPT !.op = "reconfigured", !.replaced = env]
    /\ UNCHANGED <<fs, out, tool, frames>>

NextReconfig == Next \/ Reconfigure

SpecReconfig == Init /\ [][NextReconfig]_vars

-----------------------------------------------------------------------------
(* Callers of resolve_workspace_file running in parallel, one statement at
   a time, with WORKSPACE_PATH and the filesystem left alone. *)

ConcNames ==
    { <<>>, nA, nL, PathStr(<<nA>>), Join(<<DotDot, nA>>), Join(<<nL, nA>>) }

ConcEnvs == { Unset, EnvStr(PathStr(<<nA>>)), EnvStr(PathStr(<<nS>>)) }

ConcFs ==
    { BaseFs,
      [BaseFs EXCEPT ![<<nA, nA>>] = FileNode,
                     ![<<nA, nL>>] = LinkNode(PathStr(<<nO>>))] }

InitConcurrent ==
    /\ env \in ConcEnvs
    /\ fs \in ConcFs
    /\ call = NoCall
    /\ out = NoOut
    /\ tool = NoTool
    /\ frames = NoFrames

\* One frame for all calls, as if the locals were module globals.
Slot_Shared(c) == 1

\* The frame that holds the locals of caller c's call: its own.
Slot(c) == c

Locals(c) == frames[Slot(c)].locals

\* Another caller is inside resolve_workspace_file.
Overlaps(c) ==
    frames[c].overlapped \/
        \E d \in Callers \ { c } : frames[d].pc \notin { "idle", "done" }

\* Caller c's call ends with outcome o and its frame is dropped.
Leave(c, o) ==
    [frames EXCEPT ![Slot(c)].locals = NoLocals,
                   ![c].pc = "done",
                   ![c].out = o,
                   ![c].overlapped = Overlaps(c)]

\* Caller c goes on to statement pc after assigning locals.
Goto(c, pc, locals) ==
    [frames EXCEPT ![Slot(c)].locals = locals,
                   ![c].pc = pc,
                   ![c].overlapped = Overlaps(c)]

\* The call: the arguments are bound in the new frame.
CallResolve(c) ==
    /\ frames[c].pc = "idle"
    /\ \E f \in ConcNames, m \in BOOLEAN :
          frames' = [Goto(c, "blank", [NoLocals EXCEPT !.filename = f,
                                                       !.must_exist = m])
                        EXCEPT ![c].args = [filename |-> f, must_exist |-> m]]
    /\ UNCHANGED <<env, fs, call, out, tool>>

\* Lines 65-66.
StepBlank(c) ==
    /\ frames[c].pc = "blank"
    /\ frames' = IF Locals(c).filename = <<>> \/ IsBlank(Locals(c).filename)
                 THEN Leave(c, Raise("ValueError", MsgEmpty, <<>>))
                 ELSE Goto(c, "workspace", Locals(c))
    /\ UNCHANGED <<env, fs, call, out, tool>>

\* Line 68.
StepWorkspace(c) ==
    /\ frames[c].pc = "workspace"
    /\ frames' = IF get_workspace.kind = "raise"
                 THEN Leave(c, get_workspace)
                 ELSE Goto(c, "absolute",
                           [Locals(c) EXCEPT !.ws_real = get_workspace.value])
    /\ UNCHANGED <<env, fs, call, out, tool>>

\* Lines 71-75.
StepAbsolute(c) ==
    /\ frames[c].pc = "absolute"
    /\ frames' = IF IsAbsoluteName(Locals(c).filename)
                 THEN Leave(c, Raise("PermissionError", MsgAbsolute, <<>>))
                 ELSE Goto(c, "traversal", Locals(c))
    /\ UNCHANGED <<env, fs, call, out, tool>>

\* Lines 78-80.
StepTraversal(c) ==
    /\ frames[c].pc = "traversal"
    /\ LET normalized == normpath(Locals(c).filename)
       IN  frames' = IF IsTraversal(normalized)
                     THEN Leave(c, Raise("PermissionError", MsgTraversal, <<>>))
                     ELSE Goto(c, "resolve",
                               [Locals(c) EXCEPT !.normalized = normalized])
    /\ UNCHANGED <<env, fs, call, out, tool>>

\* Line 83.
StepResolve(c) ==
    /\ frames[c].pc = "resolve"
    /\ frames' = Goto(c, "contain",
                      [Locals(c) EXCEPT !.abs_path =
                          realpath(join(Locals(c).ws_real, Locals(c).normalized))])
    /\ UNCHANGED <<env, fs, call, out, tool>>

\* Lines 85-93.
StepContain(c) ==
    /\ frames[c].pc = "contain"
    /\ LET contained == ContainmentCheck(Locals(c).abs_path, Locals(c).ws_real)
       IN  frames' = IF contained.kind = "raise" THEN Leave(c, contained)
                     ELSE Goto(c, "exists", Locals(c))
    /\ UNCHANGED <<env, fs, call, out, tool>>

\* Lines 95-98.
StepExists(c) ==
    /\ frames[c].pc = "exists"
    /\ frames' = Leave(c, ExistenceCheck(Locals(c).filename, Locals(c).must_exist,
                                          Locals(c).abs_path))
    /\ UNCHANGED <<env, fs, call, out, tool>>

\* The caller has consumed the outcome.
CallerReturn(c) ==
    /\ frames[c].pc = "done"
    /\ frames' = [frames EXCEPT ![c] = [NoFrame EXCEPT !.locals = frames[c].locals]]
    /\ UNCHANGED <<env, fs, call, out, tool>>

NextConcurrent ==
    \E c \in Callers :
        \/ CallResolve(c)
        \/ StepBlank(c)
        \/ StepWorkspace(c)
        \/ StepAbsolute(c)
        \/ StepTraversal(c)
        \/ StepResolve(c)
        \/ StepContain(c)
        \/ StepExists(c)
        \/ CallerReturn(c)

SpecConcurrent == InitConcurrent /\ [][NextConcurrent]_vars

-----------------------------------------------------------------------------
(* The containment test of lines 85-93 on a platform with drives. The test
   is applied to the two canonical paths as realpath returned them, here
   drawn from drive-qualified paths; Sep stands for os.sep. *)

Drives == { "C", "D" }

RECURSIVE CompLists(_)
\* The lists of at most n directory names.
CompLists(n) ==
    IF n = 0 THEN { <<>> }
    ELSE CompLists(n - 1) \cup
         { <<c>> \o l : c \in { nA, nAO }, l \in { x \in CompLists(n - 1) : Len(x) = n - 1 } }

DrivePaths == { <<d, Colon, Sep>> \o Join(l) : d \in Drives, l \in CompLists(MaxDriveComps) }

InitDrives ==
    /\ env \in { EnvStr(p) : p \in DrivePaths }
    /\ fs = BaseFs
    /\ call \in { [NoCall EXCEPT !.abs_path = p] : p \in DrivePaths }
    /\ out = NoOut
    /\ tool = NoTool
    /\ frames = NoFrames

\* Lines 85-93 with abs_path = call.abs_path and ws_real = WORKSPACE_PATH.
CheckContainment ==
    /\ call.op = "none"
    /\ call' = [call EXCEPT !.op = "containment"]
    /\ out' = ContainmentCheck(call.abs_path, env.value)
    /\ UNCHANGED <<env, fs, tool, frames>>

NextDrives == CheckContainment

SpecDrives == InitDrives /\ [][NextDrives]_vars

-----------------------------------------------------------------------------
(* The tools as steps: the HTTP client's answers are the environment's *)

\* A tool starts: its arguments, and whether the workspace is configured.
Start(name, file, given, item) ==
    [NoTool EXCEPT !.name = name, !.file = file, !.given = given,
                   !.item = item,
                   !.configured = (get_workspace.kind = "return"),
                   !.root = get_workspace.value]

\* The tool ends with an envelope after the calls in trace.
Finish(t, trace, envelope) ==
    [t EXCEPT !.pc = "done", !.trace = trace, !.envelope = envelope]

\* The client is asked for the attachment before it is asked whether it is
\* authenticated.
Unauthenticated_AfterGet(t) ==
    Finish(t, <<"get", "is_authenticated">>, Failure("", MsgNotAuth, <<>>))

\* client.is_authenticated() is false: the tool returns at once.
Unauthenticated(t) ==
    Finish(t, <<"is_authenticated">>, Failure("", MsgNotAuth, <<>>))

\* The caller's attachmentItem posted although file_path was given.
SessionPayload_PrefersItem(item, resolved) ==
    IF item = "complete" THEN [NoPayload EXCEPT !.source = "item"]
    ELSE [source |-> "file", name |-> basename(resolved), size_of |-> resolved]

\* The attachmentItem built from the resolved file: attachmentType "file",
\* name Path(resolved).name, size Path(resolved).stat().st_size.
SessionPayload(item, resolved) ==
    [source |-> "file", name |-> basename(resolved), size_of |-> resolved]

\* download_outlook_attachment up to the return of resolve_workspace_file.
DownloadOutlookAttachment ==
    /\ call.op = "none"
    /\ tool.pc = "none"
    /\ \E file \in ToolFiles, authed \in BOOLEAN,
          got \in { "raise", "no_content", "content" } :
          LET s == Start("download_outlook_attachment", file, TRUE, "none")
              t == [s EXCEPT !.authed = authed,
                             !.got = IF authed THEN got ELSE "none"]
              g == resolve_workspace_file(file, FALSE)
          IN  tool' =
                IF ~authed
                THEN Unauthenticated(t)
                ELSE IF got = "raise"
                THEN Finish(t, <<"is_authenticated", "get">>,
                            Failure("", MsgClient, <<>>))
                ELSE IF got = "no_content"
                THEN Finish(t, <<"is_authenticated", "get">>,
                            Failure("", MsgNoContent, <<>>))
                ELSE IF g.kind = "raise"
                THEN Finish([t EXCEPT !.guard = g],
                            <<"is_authenticated", "get", "resolve_workspace_file">>,
                            GuardEnvelope("", g))
                ELSE [t EXCEPT !.pc = "resolved", !.guard = g,
                               !.trace = <<"is_authenticated", "get",
                                           "resolve_workspace_file">>]
    /\ UNCHANGED <<env, fs, call, out, frames>>

\* download_outlook_attachment from the decoding of the content on: the
\* returned path is opened for writing and the envelope names the file by
\* to_filename.
DownloadWrite ==
    /\ tool.name = "download_outlook_attachment"
    /\ tool.pc = "resolved"
    /\ \E decodes \in BOOLEAN :
          LET dest_path == tool.guard.value
              opened == OpenForWrite(dest_path)
          IN  IF ~decodes
              THEN /\ tool' = Finish(tool, tool.trace, Failure("", MsgBase64, <<>>))
                   /\ fs' = fs
              ELSE IF opened.text # ""
              THEN /\ tool' = Finish([tool EXCEPT !.touched = <<dest_path>>],
                                     Append(tool.trace, "open"),
                                     Failure("", opened.text, <<dest_path>>))
                   /\ fs' = fs
              ELSE /\ tool' = Finish([tool EXCEPT !.touched = <<dest_path>>,
                                                  !.written = <<opened.target>>],
                                     tool.trace \o <<"open", "write">>,
                                     Success(to_filename(dest_path).value))
                   /\ fs' = [fs EXCEPT ![opened.target] = FileNode]
    /\ UNCHANGED <<env, call, out, frames>>

\* create_attachment_upload_session up to the return of
\* resolve_workspace_file; without file_path, all of it.
CreateAttachmentUploadSession ==
    /\ call.op = "none"
    /\ tool.pc = "none"
    /\ \E file \in ToolFiles, item \in Items, authed \in BOOLEAN,
          posted \in BOOLEAN :
          LET s == Start("create_attachment_upload_session", file, file # <<>>, item)
              t == [s EXCEPT !.authed = authed,
                             !.must_exist = authed /\ file # <<>>]
              g == resolve_workspace_file(file, t.must_exist)
          IN  tool' =
                IF ~authed
                THEN Unauthenticated(t)
                ELSE IF file # <<>>
                THEN IF g.kind = "raise"
                     THEN Finish([t EXCEPT !.guard = g],
                                 <<"is_authenticated", "resolve_workspace_file">>,
                                 GuardEnvelope(PrefixFileError, g))
                     ELSE [t EXCEPT !.pc = "resolved", !.guard = g,
                                    !.trace = <<"is_authenticated",
                                                "resolve_workspace_file">>]
                ELSE IF item = "none"
                THEN Finish(t, <<"is_authenticated">>, Failure("", MsgNoItem, <<>>))
                ELSE IF item = "incomplete"
                THEN Finish(t, <<"is_authenticated">>,
                            Failure("", MsgItemFields, <<>>))
                ELSE IF ~posted
                THEN Finish([t EXCEPT !.payload = [NoPayload EXCEPT !.source = "item"]],
                            <<"is_authenticated", "post">>,
                            Failure("", MsgClient, <<>>))
                ELSE Finish([t EXCEPT !.payload = [NoPayload EXCEPT !.source = "item"]],
                            <<"is_authenticated", "post">>, Success(<<>>))
    /\ UNCHANGED <<env, fs, call, out, frames>>

\* create_attachment_upload_session from the stat of the resolved file on:
\* the attachmentItem is built from the file and posted.
CreateSessionPost ==
    /\ tool.name = "create_attachment_upload_session"
    /\ tool.pc = "resolved"
    /\ \E posted \in BOOLEAN :
          LET resolved == tool.guard.value
              st == StatPath(resolved)
              t == [tool EXCEPT !.touched = <<resolved>>]
              payload == SessionPayload(tool.item, resolved)
          IN  tool' =
                IF st.text = MsgNoEnt
                THEN Finish(t, Append(tool.trace, "stat"),
                            Failure(PrefixFileError, st.text, <<resolved>>))
                ELSE IF st.text # ""
                THEN Finish(t, Append(tool.trace, "stat"),
                            Failure(PrefixReading, st.text, <<resolved>>))
                ELSE IF ~posted
                THEN Finish([t EXCEPT !.payload = payload],
                            tool.trace \o <<"stat", "post">>,
                            Failure("", MsgClient, <<>>))
                ELSE Finish([t EXCEPT !.payload = payload],
                            tool.trace \o <<"stat", "post">>, Success(<<>>))
    /\ UNCHANGED <<env, fs, call, out, frames>>


\* add_mail_attachment: file_path is opened as the caller gave it.
AddMailAttachment ==
    /\ call.op = "none"
    /\ tool.pc = "none"
    /\ \E file \in ToolFiles, content \in BOOLEAN, authed \in BOOLEAN,
          big \in BOOLEAN, draft \in { "draft", "other", "raise" },
          posted \in BOOLEAN :
          LET s == Start("add_mail_attachment", file, file # <<>>, "none")
              t == [s EXCEPT !.authed = authed]
              tf == [t EXCEPT !.touched = <<file>>]
              opened == OpenForRead(file)
              before == IF file # <<>>
                        THEN <<"is_authenticated", "exists", "stat", "open", "get">>
                        ELSE <<"is_authenticated", "get">>
              sent == [IF file # <<>> THEN tf ELSE t
                          EXCEPT !.payload = [NoPayload EXCEPT !.source =
                                                 IF file # <<>> THEN "file"
                                                 ELSE "caller"]]
          IN  tool' =
                IF ~authed
                THEN Finish(t, <<"is_authenticated">>, Failure("", MsgNotAuth, <<>>))
                ELSE IF file # <<>> /\ ~PathExists(file)
                THEN Finish(tf, <<"is_authenticated", "exists">>,
                            Failure("", MsgFileNotFound, <<file>>))
                ELSE IF file # <<>> /\ big
                THEN Finish(tf, <<"is_authenticated", "exists", "stat">>,
                            Failure("", MsgTooBig, <<>>))
                ELSE IF file # <<>> /\ opened.text # ""
                THEN Finish(tf, <<"is_authenticated", "exists", "stat", "open">>,
                            Failure(PrefixReading, opened.text, <<file>>))
                ELSE IF file = <<>> /\ ~content
                THEN Finish(t, <<"is_authenticated">>, Failure("", MsgNoBytes, <<>>))
                ELSE IF draft = "other"
                THEN Finish(IF file # <<>> THEN tf ELSE t, before,
                            Failure("", MsgNotDraft, <<>>))
                ELSE IF ~posted
                THEN Finish(sent, Append(before, "post"), Failure("", MsgClient, <<>>))
                ELSE Finish(sent, Append(before, "post"), Success(<<>>))
    /\ UNCHANGED <<env, fs, call, out, frames>>

\* add_event_attachment: file_path is opened as the caller gave it.
AddEventAttachment ==
    /\ call.op = "none"
    /\ tool.pc = "none"
    /\ \E file \in ToolFiles, given \in BOOLEAN, authed \in BOOLEAN,
          posted \in BOOLEAN :
          /\ ~given => file = <<>>
          /\ LET s == Start("add_event_attachment", file, given, "none")
                 t == [s EXCEPT !.authed = authed]
                 tf == [t EXCEPT !.touched = <<file>>]
                 opened == OpenForRead(file)
                 before == IF given THEN <<"is_authenticated", "exists", "open">>
                           ELSE <<"is_authenticated">>
                 sent == [IF given THEN tf ELSE t
                             EXCEPT !.payload = [NoPayload EXCEPT !.source =
                                                    IF given THEN "file"
                                                    ELSE "caller"]]
             IN  tool' =
                   IF ~authed
                   THEN Finish(t, <<"is_authenticated">>,
                               Failure("", MsgNotAuth, <<>>))
                   ELSE IF given /\ ~PathExists(file)
                   THEN Finish(tf, <<"is_authenticated", "exists">>,
                               Failure("", MsgFileNotFound, <<file>>))
                   ELSE IF given /\ opened.text # ""
                   THEN Finish(tf, <<"is_authenticated", "exists", "open">>,
                               Failure(PrefixReading, opened.text, <<file>>))
                   ELSE IF ~posted
                   THEN Finish(sent, Append(before, "post"),
                               Failure("", MsgClient, <<>>))
                   ELSE Finish(sent, Append(before, "post"), Success(<<>>))
    /\ UNCHANGED <<env, fs, call, out, frames>>

\* The caller has consumed the envelope.
ToolReturn ==
    /\ tool.pc = "done"
    /\ tool' = NoTool
    /\ UNCHANGED <<env, fs, call, out, frames>>

NextTools ==
    \/ DownloadOutlookAttachment
    \/ DownloadWrite
    \/ CreateAttachmentUploadSession
    \/ CreateSessionPost
    \/ AddMailAttachment
    \/ AddEventAttachment
    \/ ToolReturn
    \/ SetEnv
    \/ CreateFile
    \/ Mkdir
    \/ Symlink
    \/ Unlink

SpecTools == Init /\ [][NextTools]_vars

-----------------------------------------------------------------------------
(* What the properties speak of, stated on the host's state directly *)

IsPrefixOf(a, b) == Len(a) <= Len(b) /\ SubSeq(b, 1, Len(a)) = a

\* WORKSPACE_PATH names, directly, through ~ or through a symlink, an
\* existing directory.
ValidRoot ==
    /\ env.set
    /\ env.value # <<>>
    /\ env.value = <<Tilde>> \o PathStr(<<nA>>) => fs[<<nA, nA>>].kind = "dir"
    /\ env.value # PathStr(<<nN>>)

\* The components of the canonical workspace root, when there is one.
RootComps ==
    IF env.value = PathStr(<<nO>>) THEN <<nO>>
    ELSE IF env.value = <<Tilde>> \o PathStr(<<nA>>) THEN <<nA, nA>>
    ELSE <<nA>>

\* The components of an absolute path string.
CompsOf(s) == NonEmpty(Split(s))

\* No symlink and no "." or ".." on the way from "/" to the path.
SymlinkFree(p) ==
    \A i \in 1..Len(p) :
        /\ lstat(SubSeq(p, 1, i)).kind # "link"
        /\ p[i] \notin { Dot, DotDot }

\* The root itself or a descendant of it.
InsideRoot(p) == IsPrefixOf(RootComps, p)

Resolved == call.op = "resolve_workspace_file" /\ ~call.repeated

\* A filename that is neither empty nor blank and does not start at "/".
IsRelativeName(f) == f # <<>> /\ (\E i \in 1..Len(f) : f[i] # Space) /\ f[1] # Sep

HasDotDotComponent(s) == \E i \in 1..Len(Split(s)) : Split(s)[i] = DotDot

PermissionDenied(text) ==
    /\ out.kind = "raise"
    /\ out.exc = "PermissionError"
    /\ ValidRoot => out.text = text

-----------------------------------------------------------------------------
(* Properties *)

C2_AbsoluteRefused ==
    (Resolved /\ call.filename # <<>> /\ call.filename[1] = Sep) =>
        PermissionDenied(MsgAbsolute)

\* An absolute name of an existing file inside the workspace was refused.
C2_Witness ==
    /\ Resolved
    /\ call.filename = PathStr(<<nA, nA>>)
    /\ call.must_exist
    /\ env.value = PathStr(<<nA>>)
    /\ fs[<<nA, nA>>].kind = "file"
    /\ out.text = MsgAbsolute

\* C3: every relative filename whose normalized form has ".." as a path
\* component is refused with PermissionError, whatever must_exist is; with
\* a valid workspace the refusal is the one for path traversal.
C3_TraversalRefused ==
    (Resolved /\ IsRelativeName(call.filename)
              /\ HasDotDotComponent(normpath(call.filename))) =>
        PermissionDenied(MsgTraversal)

\* "a/../.." was refused as a traversal.
C3_Witness ==
    /\ Resolved
    /\ call.filename = Join(<<nA, DotDot, DotDot>>)
    /\ ValidRoot
    /\ out.text = MsgTraversal

\* Walking rest from the resolved directory path, some symlink met inside
\* the workspace has its target outside the workspace root.
RECURSIVE TraversesEscapingLink(_, _)
TraversesEscapingLink(path, rest) ==
    IF rest = <<>> THEN FALSE
    ELSE LET name == Head(rest)
             newpath == Append(path, name)
             target == joinrealpath(path, <<name>>)
         IN  IF name = <<>> \/ name = Dot THEN TraversesEscapingLink(path, Tail(rest))
             ELSE IF lstat(newpath).kind = "link"
             THEN \/ InsideRoot(path) /\ ~InsideRoot(target)
                  \/ TraversesEscapingLink(target, Tail(rest))
             ELSE TraversesEscapingLink(newpath, Tail(rest))

\* The caller's relative name, normalized, leads through such a symlink.
ThroughEscapingLink ==
    /\ Resolved
    /\ ValidRoot
    /\ IsRelativeName(call.filename)
    /\ ~HasDotDotComponent(normpath(call.filename))
    /\ TraversesEscapingLink(RootComps, Split(normpath(call.filename)))

\* Where the caller's normalized name leads from the root, symlinks followed.
TrueTarget == joinrealpath(RootComps, Split(normpath(call.filename)))

\* C4 as stated: a filename that traverses a symlink inside the workspace
\* whose target is outside the root is refused with PermissionError.
C4_AsStated ==
    ThroughEscapingLink => (out.kind = "raise" /\ out.exc = "PermissionError")

\* C4: a filename that traverses a symlink inside the workspace whose target
\* is outside the root, and that ends outside the root, is refused with
\* PermissionError, whatever must_exist is and whether or not the target
\* exists; a path outside the root is never returned.
C4_SymlinkEscapeRefused ==
    /\ (ThroughEscapingLink /\ ~InsideRoot(TrueTarget)) =>
            (out.kind = "raise" /\ out.exc = "PermissionError")
    /\ (ThroughEscapingLink /\ out.kind = "return") =>
            InsideRoot(CompsOf(out.value))

\* "l/a" with /a/l -> /o: the existing file /o/a outside the root is refused.
C4_Witness ==
    /\ ThroughEscapingLink
    /\ call.filename = Join(<<nL, nA>>)
    /\ call.must_exist
    /\ env.value = PathStr(<<nA>>)
    /\ fs[<<nA, nL>>].target = PathStr(<<nO>>)
    /\ out.text = MsgOutside

\* C5 as stated: with a valid root, a relative name without a ".." component
\* that resolves to the root or below it is returned by
\* resolve_workspace_file(f, False) as that canonical path.
C5_AcceptanceComplete ==
    (Resolved /\ ~call.must_exist /\ ValidRoot
        /\ IsRelativeName(call.filename)
        /\ ~HasDotDotComponent(normpath(call.filename))
        /\ InsideRoot(TrueTarget)) =>
            out = Ret(PathStr(TrueTarget))

\* to_filename was applied to the path resolve_workspace_file(f, False)
\* returned for the caller's f.
RoundTripped == call.op = "to_filename" /\ call.chained

\* C6 as stated: to_filename(resolve_workspace_file(f, False)) is a relative
\* path that denotes, from the workspace root, the file f denotes.
C6_RoundTrip ==
    RoundTripped =>
        /\ out.kind = "return"
        /\ out.value # <<>>
        /\ out.value[1] # Sep
        /\ joinrealpath(RootComps, Split(out.value)) = CompsOf(call.abs_path)

\* The caller's name passes the absolute, traversal and containment tests
\* of resolve_workspace_file under a valid root.
PassesChecks ==
    /\ ValidRoot
    /\ IsRelativeName(call.filename)
    /\ ~IsTraversal(normpath(call.filename))
    /\ InsideRoot(TrueTarget)

\* C7: resolve_workspace_file(f, True) on a name that passes every check
\* but resolves to a missing path raises FileNotFoundError whose message
\* interpolates the caller's f and nothing else: neither the resolved
\* path nor the workspace root.
C7_NotFoundNamesInput ==
    (Resolved /\ call.must_exist /\ PassesChecks
        /\ lstat(TrueTarget).kind = "none") =>
            /\ out.kind = "raise"
            /\ out.exc = "FileNotFoundError"
            /\ out.text = MsgNotFound
            /\ out.args = <<call.filename>>
            /\ \A i \in 1..Len(out.args) :
                   out.args[i] \notin { PathStr(TrueTarget), PathStr(RootComps) }

\* "l/a" with /a/l -> /a/a and no /a/a was reported missing.
C7_Witness ==
    /\ Resolved
    /\ call.must_exist
    /\ PassesChecks
    /\ call.filename = Join(<<nL, nA>>)
    /\ fs[<<nA, nL>>].target = PathStr(<<nA, nA>>)
    /\ fs[<<nA, nA>>].kind = "none"
    /\ out.exc = "FileNotFoundError"

\* The last "/"-separated piece of a string.
FinalComponent(s) == Split(s)[Len(Split(s))]

\* An absolute path that, normalized, is not the root nor below it.
OutsideWorkspace(s) ==
    /\ s # <<>>
    /\ s[1] = Sep
    /\ ValidRoot
    /\ ~InsideRoot(CompsOf(normpath(s)))

\* C8: to_filename returns for every path and every configuration, never
\* raises and never returns an absolute path; for an absolute path outside
\* the workspace, and for any path when the workspace is not configured,
\* it returns the final path component.
C8_ToFilenameTotal ==
    call.op = "to_filename" =>
        /\ out.kind = "return"
        /\ out.value = <<>> \/ out.value[1] # Sep
        /\ (OutsideWorkspace(call.abs_path) \/ ~ValidRoot) =>
                out.value = FinalComponent(call.abs_path)

\* /o/a, outside the workspace /a, was reduced to "a".
C8_Witness ==
    /\ call.op = "to_filename"
    /\ call.abs_path = PathStr(<<nO, nA>>)
    /\ env.value = PathStr(<<nA>>)
    /\ OutsideWorkspace(call.abs_path)
    /\ out.value = nA

\* C9: a second resolve_workspace_file call with the same arguments, the
\* environment and the filesystem as the first call found them, has the
\* outcome of the first; the calls leave environment and filesystem alone.
C9_RepeatSameOutcome ==
    [][(call.op = "resolve_workspace_file" /\ ~call.repeated /\ call'.repeated) =>
            (out' = out /\ env' = env /\ fs' = fs)]_vars

\* A repeated call that was reported missing, as the first was.
C9_Witness ==
    /\ call.op = "resolve_workspace_file"
    /\ call.repeated
    /\ call.must_exist
    /\ call.filename = nA
    /\ out.exc = "FileNotFoundError"

\* C10: is_workspace_configured never raises; it returns True exactly when
\* WORKSPACE_PATH is set, non-empty and names (directly, through ~ or through
\* a symlink) an existing directory, which is when get_workspace succeeds.
C10_ConfiguredIffValid ==
    call.op = "is_workspace_configured" =>
        /\ out.kind = "return"
        /\ out.flag = ValidRoot
        /\ out.flag = (get_workspace.kind = "return")

\* WORKSPACE_PATH "~/a" naming a regular file is reported as not configured.
C10_Witness ==
    /\ call.op = "is_workspace_configured"
    /\ env.value = <<Tilde>> \o PathStr(<<nA>>)
    /\ fs[<<nA, nA>>].kind = "file"
    /\ out.kind = "return"
    /\ ~out.flag

\* A filename with a character that is not whitespace.
NonBlank(f) == \E i \in 1..Len(f) : f[i] # Space

\* The message texts of a configuration error and those of a denied path.
ConfigTexts == { MsgNotSet, MsgNotDir }
DeniedTexts == { MsgAbsolute, MsgTraversal, MsgDrive, MsgOutside }

C12_BlankIsInvalid ==
    (Resolved /\ ~NonBlank(call.filename)) =>
        /\ out.kind = "raise"
        /\ out.exc = "ValueError"
        /\ out.text = MsgEmpty

\* A whitespace-only name with WORKSPACE_PATH unset is a ValueError.
C12_Witness ==
    /\ Resolved
    /\ call.filename = <<Space, Space>>
    /\ ~env.set
    /\ out.exc = "ValueError"

\* C13: with a valid root and a non-blank filename the first failing test
\* decides: an absolute name is reported as absolute, a relative name with a
\* ".." component as traversal, a name that passes both and resolves outside
\* the root as outside; FileNotFoundError is raised only for must_exist on a
\* relative name without ".." component that resolves inside the root to a
\* missing path.
C13_FirstViolationWins ==
    (Resolved /\ ValidRoot /\ NonBlank(call.filename)) =>
        /\ call.filename[1] = Sep => out.text = MsgAbsolute
        /\ (call.filename[1] # Sep /\ HasDotDotComponent(normpath(call.filename)))
                => out.text = MsgTraversal
        /\ (call.filename[1] # Sep /\ ~IsTraversal(normpath(call.filename))
                /\ ~InsideRoot(TrueTarget)) => out.text = MsgOutside
        /\ out.exc = "FileNotFoundError" =>
                /\ call.must_exist
                /\ call.filename[1] # Sep
                /\ ~HasDotDotComponent(normpath(call.filename))
                /\ InsideRoot(TrueTarget)
                /\ lstat(TrueTarget).kind = "none"

\* must_exist on "l" with /a/l -> /n, a missing path outside the root, is
\* reported as outside, not as missing.
C13_Witness ==
    /\ Resolved
    /\ call.must_exist
    /\ call.filename = nL
    /\ env.value = PathStr(<<nA>>)
    /\ fs[<<nA, nL>>].target = PathStr(<<nN>>)
    /\ lstat(<<nN>>).kind = "none"
    /\ out.text = MsgOutside

\* The canonical absolute path of the directory WORKSPACE_PATH names.
ConfiguredRoot == realpath(expanduser(env.value))

\* C14 as stated: no error of get_workspace or resolve_workspace_file
\* interpolates the canonical absolute path of the workspace root into its
\* message.
C14_NoRootInMessage ==
    (call.op \in { "get_workspace", "resolve_workspace_file" }
        /\ out.kind = "raise" /\ env.set /\ env.value # <<>>) =>
            \A i \in 1..Len(out.args) : out.args[i] # ConfiguredRoot

\* The tools that resolve their file through the guard.
GuardedTools == { "download_outlook_attachment", "create_attachment_upload_session" }

\* A tool has finished and its envelope is with the caller.
ToolDone == tool.pc = "done"

\* How often a call occurs in the tool's trace.
Calls(name) == Cardinality({ i \in 1..Len(tool.trace) : tool.trace[i] = name })

\* C15 as stated: whenever a tool has handed a path to the operating system
\* (exists, stat, open), resolve_workspace_file was called and returned, and
\* the path is the one it returned.
C15_EveryAccessGuarded ==
    tool.touched # <<>> =>
        /\ tool.guard.kind = "return"
        /\ \A i \in 1..Len(tool.touched) : tool.touched[i] = tool.guard.value

\* C16 as stated: a tool run with a file argument that started while the
\* workspace was not configured touches and writes no local file and ends
\* with a failure envelope, no exception leaving it.
C16_DisabledWhenUnconfigured ==
    (ToolDone /\ tool.given /\ ~tool.configured) =>
        /\ tool.touched = <<>>
        /\ tool.written = <<>>
        /\ tool.envelope.returned
        /\ ~tool.envelope.raised
        /\ ~tool.envelope.successful

\* C17: when resolve_workspace_file raised inside download_outlook_attachment
\* or create_attachment_upload_session, the tool has returned a failure
\* envelope with empty data whose error is the guard's message (prefixed
\* "File error: " by create_attachment_upload_session), nothing was raised,
\* no file was touched or written, the guard was called once and it is the
\* last call the tool made (no HTTP request follows it).
C17_GuardErrorsBecomeEnvelopes ==
    (ToolDone /\ tool.guard.kind = "raise") =>
        /\ tool.name \in GuardedTools
        /\ tool.envelope =
              Failure(IF tool.name = "download_outlook_attachment" THEN ""
                      ELSE PrefixFileError,
                      tool.guard.text, tool.guard.args)
        /\ tool.touched = <<>>
        /\ tool.written = <<>>
        /\ tool.payload = NoPayload
        /\ Calls("resolve_workspace_file") = 1
        /\ tool.trace[Len(tool.trace)] = "resolve_workspace_file"

\* download_outlook_attachment with file_name "/o/a": the guard's refusal of
\* an absolute path is the envelope's error, after the GET and nothing else.
C17_Witness ==
    /\ ToolDone
    /\ tool.name = "download_outlook_attachment"
    /\ tool.file = PathStr(<<nO, nA>>)
    /\ tool.guard.text = MsgAbsolute
    /\ tool.envelope.text = MsgAbsolute
    /\ tool.trace = <<"is_authenticated", "get", "resolve_workspace_file">>

\* C18 as stated: no envelope of download_outlook_attachment or
\* create_attachment_upload_session interpolates the resolved absolute path
\* or the canonical workspace root into its error, and on success file_name
\* is a relative name.
C18_NoHostPathInResponse ==
    (ToolDone /\ tool.name \in GuardedTools) =>
        /\ \A i \in 1..Len(tool.envelope.args) :
              /\ tool.guard.kind = "return" =>
                    tool.envelope.args[i] # tool.guard.value
              /\ (env.set /\ env.value # <<>>) =>
                    tool.envelope.args[i] # ConfiguredRoot
        /\ tool.envelope.successful => ~isabs(tool.envelope.file_name)

\* The canonical root a WORKSPACE_PATH value names, as components.
RootOf(e) ==
    IF e.value = PathStr(<<nO>>) THEN <<nO>>
    ELSE IF e.value = <<Tilde>> \o PathStr(<<nA>>) THEN <<nA, nA>>
    ELSE <<nA>>

\* A WORKSPACE_PATH value that names an existing directory.
ValidRootOf(e) ==
    /\ e.set
    /\ e.value # <<>>
    /\ e.value = <<Tilde>> \o PathStr(<<nA>>) => fs[<<nA, nA>>].kind = "dir"
    /\ e.value # PathStr(<<nN>>)

\* A call made right after the host changed WORKSPACE_PATH.
AfterChange == call.op # "reconfigured" /\ call.reconfigured

\* C19 as stated: after WORKSPACE_PATH changed from root A to another root
\* B, no call returns a path confined to A.
C19_AsStated ==
    (AfterChange /\ call.op = "resolve_workspace_file" /\ out.kind = "return"
        /\ ValidRootOf(call.replaced) /\ RootOf(call.replaced) # RootComps) =>
            ~IsPrefixOf(RootOf(call.replaced), CompsOf(out.value))

\* C19: a call made right after WORKSPACE_PATH changed is decided by the
\* new value alone: get_workspace returns the new canonical root,
\* is_workspace_configured tells whether the new value is valid,
\* resolve_workspace_file returns only paths inside the new root, to_filename
\* relates its argument to the new root, and with the new value unset or
\* invalid get_workspace and resolve_workspace_file raise a configuration
\* error and to_filename falls back to the basename.
C19_Fresh ==
    AfterChange =>
        /\ call.op = "get_workspace" =>
              IF ValidRoot THEN out = Ret(PathStr(RootComps))
              ELSE out.kind = "raise" /\ out.text \in ConfigTexts
        /\ call.op = "is_workspace_configured" => out = RetFlag(ValidRoot)
        /\ (call.op = "resolve_workspace_file" /\ NonBlank(call.filename)) =>
              IF ValidRoot
              THEN out.kind = "return" => InsideRoot(CompsOf(out.value))
              ELSE out.kind = "raise" /\ out.text \in ConfigTexts
        /\ (call.op = "to_filename" /\ call.abs_path # <<>>) =>
              IF ValidRoot /\ ~StartsWith(relpath(call.abs_path, PathStr(RootComps)), DotDot)
              THEN out = Ret(relpath(call.abs_path, PathStr(RootComps)))
              ELSE out = Ret(basename(call.abs_path))

\* After the root changed from /a to /o, "a" resolves to /o/a.
C19_Witness ==
    /\ AfterChange
    /\ call.op = "resolve_workspace_file"
    /\ call.replaced = EnvStr(PathStr(<<nA>>))
    /\ env = EnvStr(PathStr(<<nO>>))
    /\ call.filename = nA
    /\ out = Ret(PathStr(<<nO, nA>>))

\* C20: every step in which a guard operation is called (get_workspace,
\* resolve_workspace_file, to_filename, is_workspace_configured), whether it
\* returns or raises, leaves WORKSPACE_PATH and every file, directory and
\* symlink as they were.
C20_Frame ==
    [][ (call' # call /\ call'.op \in { "get_workspace", "resolve_workspace_file",
                                         "to_filename", "is_workspace_configured" })
            => (env' = env /\ fs' = fs) ]_vars

\* resolve_workspace_file(f, False) has returned a path at which nothing
\* exists.
C20_Witness ==
    /\ Resolved
    /\ ~call.must_exist
    /\ out.kind = "return"
    /\ CompsOf(out.value) \in FilePaths
    /\ lstat(CompsOf(out.value)).kind = "none"

\* C23: with a valid workspace, a relative filename whose normalized form
\* has a ".." component has one outcome in every filesystem state and for
\* both values of must_exist, the traversal refusal; this also where joining
\* the name to the root and resolving it would lead inside the root.
C23_TraversalIsSyntactic ==
    (Resolved /\ ValidRoot /\ IsRelativeName(call.filename)
              /\ HasDotDotComponent(normpath(call.filename))) =>
        out = Raise("PermissionError", MsgTraversal, <<>>)

\* "../a/a" under the root /a, which names the existing file /a/a inside
\* the root, was refused as a traversal.
C23_Witness ==
    /\ Resolved
    /\ env.value = PathStr(<<nA>>)
    /\ call.filename = Join(<<DotDot, nA, nA>>)
    /\ fs[<<nA, nA>>].kind = "file"
    /\ normpath(join(PathStr(<<nA>>), call.filename)) = PathStr(<<nA, nA>>)
    /\ out.text = MsgTraversal

\* C24 as stated: for a relative filename f whose normalized form n has no
\* ".." component, resolve_workspace_file(f, m) returns the path or raises
\* the kind of error that resolve_workspace_file(n, m) does, and with a
\* valid workspace f is not refused as a traversal.
C24_NormalizationEquivalence ==
    (Resolved /\ IsRelativeName(call.filename)
              /\ ~HasDotDotComponent(normpath(call.filename))) =>
        LET n == resolve_workspace_file(normpath(call.filename), call.must_exist)
        IN  /\ out.kind = n.kind
            /\ out.value = n.value
            /\ out.exc = n.exc
            /\ out.text = n.text
            /\ ValidRoot => out.text # MsgTraversal

\* C25: with a valid workspace, a relative name without traversal whose
\* resolved path is outside the root although its string begins with the
\* root's string (a sibling whose name extends the root's name) is refused
\* as outside the workspace, and a name that normalizes to "." is accepted
\* and resolves to the root itself.
C25_WholeComponents ==
    (Resolved /\ ValidRoot /\ IsRelativeName(call.filename)
              /\ ~IsTraversal(normpath(call.filename))) =>
        /\ (StartsWith(PathStr(TrueTarget), PathStr(RootComps))
                /\ ~InsideRoot(TrueTarget)) =>
              out = Raise("PermissionError", MsgOutside, <<>>)
        /\ normpath(call.filename) = Dot => out = Ret(PathStr(RootComps))

\* Under the root /a the name "l/a", with /a/l -> /ao, was refused as
\* outside the workspace.
C25_Witness ==
    /\ Resolved
    /\ env.value = PathStr(<<nA>>)
    /\ call.filename = Join(<<nL, nA>>)
    /\ fs[<<nA, nL>>].target = PathStr(<<nAO>>)
    /\ TrueTarget = <<nAO, nA>>
    /\ out.text = MsgOutside

\* C27 as stated: the traversal refusal is raised only for filenames whose
\* normalized form has ".." as an entire path component.
C27_TraversalPrecise ==
    (Resolved /\ out.text = MsgTraversal) =>
        HasDotDotComponent(normpath(call.filename))

\* The name passes every test before the existence test and the resolved
\* path is missing.
MissingInside ==
    LET lax == resolve_workspace_file(call.filename, FALSE)
    IN  lax.kind = "return" /\ lstat(CompsOf(lax.value)).kind = "none"

\* C28: resolve_workspace_file(f, True) and resolve_workspace_file(f, False)
\* have the same outcome in every state, except for a name that passes
\* every test before the existence test and resolves to a missing path:
\* then must_exist=True raises FileNotFoundError and must_exist=False
\* returns the path.
C28_MustExistOneCase ==
    Resolved =>
        LET other == resolve_workspace_file(call.filename, ~call.must_exist)
        IN  IF MissingInside
            THEN /\ call.must_exist =>
                      /\ out = Raise("FileNotFoundError", MsgNotFound, <<call.filename>>)
                      /\ other.kind = "return"
                 /\ ~call.must_exist =>
                      /\ out.kind = "return"
                      /\ other.exc = "FileNotFoundError"
            ELSE out = other

\* must_exist=True on "a", an existing directory: the path is returned as
\* with must_exist=False.
C28_Witness ==
    /\ Resolved
    /\ call.must_exist
    /\ call.filename = nA
    /\ env.value = PathStr(<<nA>>)
    /\ fs[<<nA, nA>>].kind = "dir"
    /\ out = Ret(PathStr(<<nA, nA>>))

\* C26: when the resolved path is on another drive than the workspace
\* root the containment test raises the different-drive PermissionError,
\* and the ValueError of the common-path computation never reaches the
\* caller.
C26_CrossDrive ==
    call.op = "containment" =>
        /\ out.exc # "ValueError"
        /\ splitdrive(call.abs_path)[1] # splitdrive(env.value)[1] =>
              out = Raise("PermissionError", MsgDrive, <<>>)

\* D:/a against the workspace C:/a, the same path but for the drive, was
\* refused with the different-drive message.
C26_Witness ==
    /\ call.op = "containment"
    /\ env.value = <<"C", Colon, Sep>> \o nA
    /\ call.abs_path = <<"D", Colon, Sep>> \o nA
    /\ commonpath(call.abs_path, env.value).exc = "ValueError"
    /\ out.text = MsgDrive

\* create_attachment_upload_session was called with a file_path.
SessionWithFile == tool.name = "create_attachment_upload_session" /\ tool.given

\* The tool has posted the payload of a file_path call: the guard had
\* returned, and the payload is the one of the resolved file whatever
\* attachmentItem the caller supplied; a failed resolution posts nothing.
PostedFromFile ==
    SessionWithFile =>
        /\ tool.payload.source # "item"
        /\ tool.authed => tool.must_exist
        /\ Calls("post") > 0 =>
              /\ tool.guard.kind = "return"
              /\ tool.payload = [source |-> "file",
                                 name |-> FinalComponent(tool.guard.value),
                                 size_of |-> tool.guard.value]
        /\ tool.guard.kind = "raise" =>
              /\ Calls("post") = 0
              /\ tool.payload = NoPayload

\* The guard returns to the tool only a path at which something exists.
ResolvedExisting ==
    (tool.pc = "none" /\ tool'.name = "create_attachment_upload_session"
                      /\ tool'.pc = "resolved") =>
        /\ fs' = fs
        /\ exists(tool'.guard.value)

\* C22: in create_attachment_upload_session with file_path given, the
\* payload posted is built from the guarded file only (name = final
\* component of the resolved path, size = st_size of the resolved path),
\* a caller-supplied attachmentItem is ignored, the guard is called with
\* must_exist and returns only an existing path, and nothing is posted when
\* the resolution fails.
C22_PayloadFromGuardedFile == []PostedFromFile /\ [][ResolvedExisting]_vars

\* file_path "a/a" and a complete attachmentItem: the file's payload was
\* posted and the session created.
C22_Witness ==
    /\ SessionWithFile
    /\ ToolDone
    /\ tool.file = Join(<<nA, nA>>)
    /\ tool.item = "complete"
    /\ tool.guard = Ret(PathStr(<<nA, nA, nA>>))
    /\ tool.payload = [source |-> "file", name |-> nA,
                       size_of |-> PathStr(<<nA, nA, nA>>)]
    /\ tool.trace = <<"is_authenticated", "resolve_workspace_file", "stat", "post">>
    /\ tool.envelope.successful

\* C29 as stated: every entry download_outlook_attachment writes lies at or
\* below the workspace root its resolve_workspace_file call used, whatever
\* other processes did between the return of the guard and the open.
C29_WrittenInsideRoot ==
    (tool.name = "download_outlook_attachment" /\ tool.written # <<>>) =>
        \A i \in 1..Len(tool.written) :
            IsPrefixOf(CompsOf(tool.root), tool.written[i])

\* An unauthenticated run of a guarded tool made no request, resolved
\* nothing and touched no file; a download that wrote did so after
\* authentication, a GET that returned contentBytes and a successful
\* resolution, in this order.
OrderedCalls ==
    /\ (tool.name \in GuardedTools /\ ToolDone /\ ~tool.authed) =>
          /\ tool.envelope = Failure("", MsgNotAuth, <<>>)
          /\ tool.trace = <<"is_authenticated">>
          /\ tool.guard = NoOut
          /\ tool.touched = <<>>
          /\ tool.written = <<>>
          /\ tool.payload = NoPayload
    /\ (tool.name = "download_outlook_attachment" /\ tool.written # <<>>) =>
          /\ tool.authed
          /\ tool.got = "content"
          /\ tool.guard.kind = "return"
          /\ tool.trace = <<"is_authenticated", "get", "resolve_workspace_file",
                            "open", "write">>

\* A step of a tool changes the filesystem only by the write of a download.
WritesOnlyInDownload ==
    (tool' # tool /\ fs' # fs) =>
        /\ tool.name = "download_outlook_attachment"
        /\ tool.pc = "resolved"
        /\ tool'.written # <<>>
        /\ fs' = [fs EXCEPT ![tool'.written[1]] = FileNode]

\* C30: unauthenticated, download_outlook_attachment and
\* create_attachment_upload_session return the failure envelope without any
\* GET or POST and without resolving or touching a file; and
\* download_outlook_attachment writes a file only after authentication, a
\* fetched attachment with contentBytes and a successful
\* resolve_workspace_file, in that order.
C30_Ordering == []OrderedCalls /\ [][WritesOnlyInDownload]_vars

\* A download wrote the new file /a/l after the three steps.
C30_Witness ==
    /\ tool.name = "download_outlook_attachment"
    /\ ToolDone
    /\ tool.file = nL
    /\ tool.written = << <<nA, nL>> >>
    /\ fs[<<nA, nL>>] = FileNode
    /\ tool.authed /\ tool.got = "content"
    /\ Calls("write") = 1

\* C21: with WORKSPACE_PATH and the filesystem unchanged, every call of
\* resolve_workspace_file that ran in parallel with other calls, in any
\* interleaving of their statements, ends with the outcome the same call
\* has when it runs alone.
C21_NoInterference ==
    \A c \in Callers :
        frames[c].pc = "done" =>
            frames[c].out = resolve_workspace_file(frames[c].args.filename,
                                                   frames[c].args.must_exist)

\* Two calls with different arguments overlapped and ended differently:
\* caller 1 got the path of "a", caller 2 the refusal of the escaping "l".
C21_Witness ==
    /\ frames[1].pc = "done" /\ frames[2].pc = "done"
    /\ frames[1].overlapped /\ frames[2].overlapped
    /\ frames[1].args.filename = nA
    /\ frames[2].args.filename = nL
    /\ frames[1].out = Ret(PathStr(<<nA, nA>>))
    /\ frames[2].out.text = MsgOutside

====
